---- MODULE Spec2Model ----
(***************************************************************************)
(* The currency-rate cache of convert.rs (src/core/currency.rs), the       *)
(* process-wide Lazy<Mutex<ConversionCache>> that the currency conversion  *)
(* path locks (src/core/units.rs), and the read-eval-print loop that       *)
(* drives it (src/ui/cli.rs, src/core/commands.rs).                        *)
(*                                                                         *)
(* Time is the wall clock in seconds.  A rate is a positive number; the    *)
(* model draws rates from 1..MaxRate.  The pricing source, the credential  *)
(* and the durable store are the environment: their outcomes are drawn     *)
(* nondeterministically.                                                   *)
(***************************************************************************)
EXTENDS Integers, Sequences, FiniteSets, TLC

\* ------------------------------------------------------------------ bounds
\* how many times the wall clock advances
MaxTicks == 1
\* rates are drawn from 1..MaxRate
MaxRate == 2
\* how many requests the pricing source is sent
MaxRequests == 2

\* the greatest whole magnitude a Value is made with
MaxValue == 7

\* --------------------------------------------------------------- constants
\* currency.rs:9, one week in seconds
EXPIRE_AFTER == 60 * 60 * 24 * 7

\* Option: None is the empty tuple, Some(x) the one-element tuple
None == <<>>

Some(x) == <<x>>

unwrap(o) == o[1]

\* units.rs:267-275, in declaration order
CurrencyUnit == <<"USD", "EUR", "JPY", "KRW", "GBP", "AUD">>

CurrencySet == {CurrencyUnit[i] : i \in 1..Len(CurrencyUnit)}

\* units.rs:277-288 with Unitlike::from_str (156-162): the long and the short
\* name of a currency are both its code; any other text is an Err
CurrencyFromStr(s) == IF s \in CurrencySet THEN Some(s) ELSE None

\* units.rs:290-296, Display of a currency: its long name, which is its code
CurrencyToString(c) == c

\* HashMap::new()
EmptyTable == [c \in CurrencySet |-> None]

Rates == 1..MaxRate

\* ------------------------------------------------------ the pricing source
\* The codes the pricing source may send, in the order serde_json's Map
\* (a BTreeMap) iterates them: sorted. "BTC" is a code the program does not
\* recognize.
RateKeys == <<"BTC", "EUR", "USD">>

RateKeySet == {RateKeys[i] : i \in 1..Len(RateKeys)}

\* JSON values: a number, a number no DateTime can represent, a string, and
\* the absence of a key
JNum(n) == <<"num", n>>

JHuge == <<"bignum">>

JStr == <<"str">>

JAbsent == <<"absent">>

\* serde_json Value::as_f64: Some for a number, None otherwise
as_f64(v) == IF v[1] = "num" THEN Some(v[2]) ELSE None

\* serde_json Value::as_i64: Some for an integer, None otherwise
as_i64(v) == IF v[1] \in {"num", "bignum"} THEN Some(v) ELSE None

\* chrono DateTime::from_timestamp(n, 0): None when n is out of range
from_timestamp(n) == IF n[1] = "num" THEN Some(n[2]) ELSE None

\* response["rates"].as_object(): None when the field is missing or no
\* object, else an object giving each key a number, a non-number or nothing
RatesObjects ==
    {None} \cup
    {Some(f) : f \in [RateKeySet -> {JNum(r) : r \in Rates} \cup {JStr, JAbsent}]}

\* response["timestamp"] at wall-clock time t: no integer, an integer out of
\* range, an old time, the current time
Timestamps(t) == {JStr, JHuge, JNum(0), JNum(t)}

\* The responses the source may give at wall-clock time t.
Responses(t) == [timestamp : Timestamps(t), rates : RatesObjects]

\* the rates objects among them that the threads of Concurrent are answered
\* with: both currencies, one currency, and a rate that is no number after
\* one that is
FewRates ==
    {[k \in RateKeySet |-> IF k \in present THEN JNum(1) ELSE JAbsent] :
         present \in {{"EUR", "USD"}, {"EUR"}, {"BTC", "USD"}}}
    \cup {[k \in RateKeySet |->
              IF k = "EUR" THEN JNum(2) ELSE IF k = "USD" THEN JStr ELSE JAbsent]}

FewResponses(t) ==
    [timestamp : Timestamps(t) \ {JStr},
     rates : {None} \cup {Some(f) : f \in FewRates}]

\* ------------------------------------------------------- ConversionCache
\* is_expired with <= for <: a table whose age is exactly the window is stale
is_expired_at_the_window(lt, t) ==
    IF lt = None THEN TRUE ELSE unwrap(lt) + EXPIRE_AFTER <= t

\* currency.rs:41, the staleness test of get_base_rate:
\* last_time.is_none() || last_time.unwrap() + expire_after < Utc::now()
is_expired(lt, t) == IF lt = None THEN TRUE ELSE unwrap(lt) + EXPIRE_AFTER < t

\* needs_refresh without the fallback of line 47: a table that is not expired
\* and has no entry for the currency is not refreshed
needs_refresh_when_expired(table, lt, from, t) == is_expired(lt, t)

\* currency.rs:40-50: get_base_rate goes to request_and_update when the table
\* is expired or has no entry for the currency
needs_refresh(table, lt, from, t) ==
    IF is_expired(lt, t) THEN TRUE ELSE table[from] = None

\* update_timestamp that never reads the response
update_timestamp_wall_clock(response, t) == Some(t)

\* currency.rs:74-77: the Option that update unwraps at line 78; None there
\* is a panic
update_timestamp(response, t) ==
    IF as_i64(response.timestamp) = None
    THEN Some(t)
    ELSE from_timestamp(unwrap(as_i64(response.timestamp)))

\* currency.rs:84-95, the loop of update from the i-th key on: a rate that is
\* no number ends the loop with the error, a code that is no currency is
\* skipped, every other entry is inserted into the table
RECURSIVE insert_rates(_, _, _)
insert_rates(table, rates, i) ==
    IF i > Len(RateKeys)
    THEN [ok |-> TRUE, table |-> table]
    ELSE LET currency == RateKeys[i]
             rate == rates[currency]
         IN  IF rate = JAbsent
             THEN insert_rates(table, rates, i + 1)
             ELSE IF as_f64(rate) = None
             THEN [ok |-> FALSE, table |-> table]
             ELSE IF CurrencyFromStr(currency) = None
             THEN insert_rates(table, rates, i + 1)
             ELSE insert_rates(
                      [table EXCEPT ![unwrap(CurrencyFromStr(currency))] = as_f64(rate)],
                      rates, i + 1)

\* currency.rs:73-99 without the save of line 97: the outcome of update on
\* the cache (table, lt) at wall-clock time t
update(table, lt, response, t) ==
    LET timestamp == update_timestamp(response, t)
    IN  IF timestamp = None
        THEN [status |-> "panic", message |-> "unwrap on None",
              table |-> table, last_time |-> lt]
        ELSE IF response.rates = None
        THEN [status |-> "err", message |-> "Rates not found",
              table |-> table, last_time |-> lt]
        ELSE LET loop == insert_rates(table, unwrap(response.rates), 1)
             IN  IF ~loop.ok
                 THEN [status |-> "err", message |-> "Invalid rate format",
                       table |-> loop.table, last_time |-> lt]
                 ELSE [status |-> "ok", message |-> "",
                       table |-> loop.table, last_time |-> timestamp]

\* currency.rs:56-58: the result of request_and_update after update
lookup(table, from) ==
    IF table[from] = None
    THEN <<"Err", "Rate not found">>
    ELSE <<"Ok", unwrap(table[from])>>

\* ------------------------------------------------------ the durable store
\* A row of conversion_cache: the currency text, the rate as the REAL column
\* holds it (or NULL), and the last_update text.
\* DateTime<Utc>::to_string, and its parse (currency.rs:120, 137)
DateTimeToString(t) == <<"utc", t>>

ParseDateTime(s) == IF s[1] = "utc" THEN Some(s[2]) ELSE None

\* f64::to_string bound to the REAL column (currency.rs:119)
RateToSql(r) == <<"real", r>>

NoStore == [table |-> FALSE, rows |-> <<>>]

\* the snapshots a process may find when it starts for the first time
InitialSnapshots ==
    {NoStore,
     [table |-> TRUE, rows |-> <<>>],
     [table |-> TRUE,
      rows |-> <<[currency |-> "EUR", rate |-> RateToSql(1),
                  last_update |-> DateTimeToString(0)]>>],
     [table |-> TRUE,
      rows |-> <<[currency |-> "EUR", rate |-> <<"null">>,
                  last_update |-> DateTimeToString(0)]>>],
     [table |-> TRUE,
      rows |-> <<[currency |-> "BTC", rate |-> RateToSql(1),
                  last_update |-> DateTimeToString(0)]>>],
     [table |-> TRUE,
      rows |-> <<[currency |-> "EUR", rate |-> RateToSql(1),
                  last_update |-> <<"garbage">>]>>]}

\* currency.rs:131-148: the rows from the i-th on. A rate that is no REAL is
\* the Err of row.get; a currency or a timestamp that does not parse is the
\* panic of expect; the last row's timestamp is kept.
RECURSIVE load_rows(_, _, _, _)
load_rows(rows, i, table, last_update) ==
    IF i > Len(rows)
    THEN [status |-> "ok", table |-> table, last_time |-> Some(last_update)]
    ELSE LET row == rows[i]
         IN  IF row.rate[1] # "real"
             THEN [status |-> "err", table |-> EmptyTable, last_time |-> None]
             ELSE IF CurrencyFromStr(row.currency) = None
                     \/ ParseDateTime(row.last_update) = None
             THEN [status |-> "panic", table |-> EmptyTable, last_time |-> None]
             ELSE load_rows(rows, i + 1,
                      [table EXCEPT ![unwrap(CurrencyFromStr(row.currency))] =
                           Some(row.rate[2])],
                      unwrap(ParseDateTime(row.last_update)))

\* currency.rs:128-154
load_from_db(store, t) ==
    IF ~store.table
    THEN [status |-> "err", table |-> EmptyTable, last_time |-> None]
    ELSE load_rows(store.rows, 1, EmptyTable, t)

\* currency.rs:31-36 with Default (19-27): new() falls back to the default
\* cache when load_from_db returns Err
new(store, t) ==
    LET loaded == load_from_db(store, t)
    IN  IF loaded.status = "err"
        THEN [status |-> "ok", table |-> EmptyTable, last_time |-> None]
        ELSE loaded

\* INSERT OR REPLACE of one row (currency.rs:114-122): the row of that
\* currency, if any, is deleted and the new row is appended
insert_or_replace(rows, c, r, lt) ==
    SelectSeq(rows, LAMBDA row : row.currency # CurrencyToString(c))
    \o <<[currency |-> CurrencyToString(c), rate |-> RateToSql(r),
          last_update |-> DateTimeToString(unwrap(lt))]>>

RECURSIVE save_rows(_, _, _, _, _)
save_rows(rows, order, i, table, lt) ==
    IF i > Len(order)
    THEN rows
    ELSE save_rows(insert_or_replace(rows, order[i], unwrap(table[order[i]]), lt),
                   order, i + 1, table, lt)

\* the orders in which the HashMap's iterator may yield the entries, and
\* their prefixes (the store failing partway)
InsertOrders(table, full) ==
    LET present == {c \in CurrencySet : table[c] # None}
        n == Cardinality(present)
    IN  {order \in UNION {[1..k -> present] : k \in (IF full THEN {n} ELSE 0..n)} :
            \A i, j \in DOMAIN order : i # j => order[i] # order[j]}

\* currency.rs:102-125: what save_to_db may leave in the store. Ok: every
\* entry written; Err: the store untouched (open failed), or the table
\* created and some of the entries written.
save_to_db(store, table, lt) ==
    {[result |-> "Ok",
      store |-> [table |-> TRUE, rows |-> save_rows(store.rows, order, 1, table, lt)]] :
         order \in InsertOrders(table, TRUE)}
    \cup {[result |-> "Err", store |-> store]}
    \cup {[result |-> "Err",
           store |-> [table |-> TRUE, rows |-> save_rows(store.rows, order, 1, table, lt)]] :
              order \in InsertOrders(table, FALSE) \ InsertOrders(table, TRUE)}

\* save_to_db's Err passed on by update, as self.save_to_db()? would
after_save_propagated(saved) == IF saved.result = "Err" THEN "err" ELSE "ok"

\* currency.rs:97-98, let _ = self.save_to_db(); Ok(()): update's result
\* after the save, whatever the save returned
after_save(saved) == "ok"

\* --------------------------------------------------------------- numbers
\* A natural number of any size, as its digits in base 2^15, the least
\* significant first and the most significant not zero.
Base == 32768

LimbBits == 15

RECURSIVE BigNorm(_)
BigNorm(a) ==
    IF a = <<>> THEN a
    ELSE IF a[Len(a)] = 0 THEN BigNorm(SubSeq(a, 1, Len(a) - 1)) ELSE a

RECURSIVE BigFromInt(_)
BigFromInt(n) == IF n = 0 THEN <<>> ELSE <<n % Base>> \o BigFromInt(n \div Base)

BigRest(a) == IF a = <<>> THEN a ELSE Tail(a)

BigLow(a) == IF a = <<>> THEN 0 ELSE a[1]

RECURSIVE BigAddC(_, _, _)
BigAddC(a, b, c) ==
    IF a = <<>> /\ b = <<>>
    THEN IF c = 0 THEN <<>> ELSE <<c>>
    ELSE LET x == BigLow(a) + BigLow(b) + c
         IN  <<x % Base>> \o BigAddC(BigRest(a), BigRest(b), x \div Base)

BigAdd(a, b) == BigAddC(a, b, 0)

\* a - b - c for a >= b + c
RECURSIVE BigSubB(_, _, _)
BigSubB(a, b, c) ==
    IF a = <<>> THEN <<>>
    ELSE LET x == a[1] - BigLow(b) - c
         IN  <<x % Base>> \o BigSubB(Tail(a), BigRest(b), IF x < 0 THEN 1 ELSE 0)

BigSub(a, b) == BigNorm(BigSubB(a, b, 0))

\* -1, 0 or 1 as a is less than, equal to or greater than b
RECURSIVE BigCmp(_, _)
BigCmp(a, b) ==
    IF Len(a) # Len(b) THEN (IF Len(a) < Len(b) THEN -1 ELSE 1)
    ELSE IF a = <<>> THEN 0
    ELSE IF a[Len(a)] # b[Len(b)] THEN (IF a[Len(a)] < b[Len(b)] THEN -1 ELSE 1)
    ELSE BigCmp(SubSeq(a, 1, Len(a) - 1), SubSeq(b, 1, Len(b) - 1))

RECURSIVE BigMulSmall(_, _, _)
BigMulSmall(a, k, c) ==
    IF a = <<>>
    THEN IF c = 0 THEN <<>> ELSE <<c>>
    ELSE LET x == a[1] * k + c
         IN  <<x % Base>> \o BigMulSmall(Tail(a), k, x \div Base)

RECURSIVE BigMulR(_, _)
BigMulR(a, b) ==
    IF b = <<>> THEN <<>>
    ELSE LET rest == BigMulR(a, Tail(b))
         IN  IF rest = <<>> THEN BigMulSmall(a, b[1], 0)
             ELSE BigAdd(BigMulSmall(a, b[1], 0), <<0>> \o rest)

BigMul(a, b) == IF a = <<>> \/ b = <<>> THEN <<>> ELSE BigNorm(BigMulR(a, b))

RECURSIVE BitLenSmall(_)
BitLenSmall(n) == IF n = 0 THEN 0 ELSE 1 + BitLenSmall(n \div 2)

BigBitLen(a) == IF a = <<>> THEN 0 ELSE (Len(a) - 1) * LimbBits + BitLenSmall(a[Len(a)])

\* bit i of a, bit 0 the least significant
BigBit(a, i) ==
    IF i \div LimbBits + 1 > Len(a) THEN 0
    ELSE (a[i \div LimbBits + 1] \div (2 ^ (i % LimbBits))) % 2

BigPow2(k) ==
    [i \in 1..(k \div LimbBits + 1) |->
        IF i = k \div LimbBits + 1 THEN 2 ^ (k % LimbBits) ELSE 0]

BigOdd(a) == BigLow(a) % 2 = 1

\* the greatest digit k + j, j < 2^(bit+1), with d * (k + j) <= r
RECURSIVE BigDigit(_, _, _, _)
BigDigit(r, d, k, bit) ==
    IF bit < 0 THEN k
    ELSE IF BigCmp(BigNorm(BigMulSmall(d, k + 2 ^ bit, 0)), r) <= 0
         THEN BigDigit(r, d, k + 2 ^ bit, bit - 1)
         ELSE BigDigit(r, d, k, bit - 1)

\* quotient and remainder of n by d, d not zero, by long division: the
\* digits of n from the i-th down are brought in after quotient q,
\* remainder r
RECURSIVE BigDivModR(_, _, _, _, _)
BigDivModR(n, d, i, q, r) ==
    IF i < 1 \/ Len(q) + Len(r) < 0 THEN [q |-> BigNorm(q), r |-> r]
    ELSE LET r2 == BigNorm(<<n[i]>> \o r)
             digit == BigDigit(r2, d, 0, LimbBits - 1)
         IN  BigDivModR(n, d, i - 1, <<digit>> \o q,
                        BigSub(r2, BigNorm(BigMulSmall(d, digit, 0))))

BigDivMod(n, d) == BigDivModR(n, d, Len(n), <<>>, <<>>)

\* 10^k, by squaring
RECURSIVE BigPow10(_)
BigPow10(k) ==
    IF k = 0 THEN <<1>>
    ELSE IF k % 2 = 1 THEN BigNorm(BigMulSmall(BigPow10(k - 1), 10, 0))
    ELSE LET half == BigPow10(k \div 2)
         IN  IF half = <<>> THEN <<>> ELSE BigMul(half, half)

\* ------------------------------------------------------------------- f64
\* A non-negative f64 (the program never makes a negative one): k is "fin",
\* "inf" or "nan"; a finite one is m * 2^e, with m of 53 bits (a normal
\* number), or fewer and e = -1074 (a subnormal number or zero).
MantissaBits == 53

MinExp == 0 - 1074

MaxExp == 971

F64Inf == [k |-> "inf", m |-> <<>>, e |-> 0]

F64NaN == [k |-> "nan", m |-> <<>>, e |-> 0]

F64Zero == [k |-> "fin", m |-> <<>>, e |-> MinExp]

\* The f64 nearest to n * 2^e, or to a little more than that when sticky,
\* ties to even: the rounding of IEEE 754 every f64 operation ends with.
F64Round(n, sticky, e) ==
    IF n = <<>> THEN F64Zero
    ELSE LET t0 == e + BigBitLen(n) - MantissaBits
             t == IF t0 < MinExp THEN MinExp ELSE t0
         IN  IF t <= e
             THEN [k |-> "fin", m |-> BigMul(n, BigPow2(e - t)), e |-> t]
             ELSE LET qr == BigDivMod(n, BigPow2(t - e))
                      half == BigCmp(qr.r, BigPow2(t - e - 1))
                      up == IF half > 0 THEN TRUE
                            ELSE IF half < 0 THEN FALSE
                            ELSE IF sticky THEN TRUE ELSE BigOdd(qr.q)
                      m == IF up THEN BigAddC(qr.q, <<>>, 1) ELSE qr.q
                      carried == BigBitLen(m) > MantissaBits
                      t2 == IF carried THEN t + 1 ELSE t
                  IN  IF t2 > MaxExp THEN F64Inf
                      ELSE [k |-> "fin",
                            m |-> IF carried THEN BigPow2(MantissaBits - 1) ELSE m,
                            e |-> t2]

\* the f64 nearest to the fraction n / d of two naturals, d not zero: what a
\* decimal literal or a parsed decimal text is
F64FromRatio(n, d) ==
    IF n = <<>> THEN F64Zero
    ELSE LET s0 == MantissaBits + 2 + BigBitLen(d) - BigBitLen(n)
             s == IF s0 < 0 THEN 0 ELSE s0
             qr == BigDivMod(BigMul(n, BigPow2(s)), d)
         IN  F64Round(qr.q, qr.r # <<>>, 0 - s)

F64FromInt(n) == F64Round(BigFromInt(n), FALSE, 0)

\* x * y
F64Mul(x, y) ==
    IF x.k = "nan" \/ y.k = "nan" THEN F64NaN
    ELSE IF x.k = "inf" \/ y.k = "inf"
    THEN (IF x = F64Zero \/ y = F64Zero THEN F64NaN ELSE F64Inf)
    ELSE F64Round(BigMul(x.m, y.m), FALSE, x.e + y.e)

\* x / y
F64Div(x, y) ==
    IF x.k = "nan" \/ y.k = "nan" THEN F64NaN
    ELSE IF x.k = "inf" THEN (IF y.k = "inf" THEN F64NaN ELSE F64Inf)
    ELSE IF y.k = "inf" THEN F64Zero
    ELSE IF y = F64Zero THEN (IF x = F64Zero THEN F64NaN ELSE F64Inf)
    ELSE IF x = F64Zero THEN F64Zero
    ELSE LET s0 == MantissaBits + 2 + BigBitLen(y.m) - BigBitLen(x.m)
             s == IF s0 < 0 THEN 0 ELSE s0
             qr == BigDivMod(BigMul(x.m, BigPow2(s)), y.m)
         IN  F64Round(qr.q, qr.r # <<>>, x.e - y.e - s)

\* x == y of f64: a NaN equals nothing
F64Eq(x, y) == IF x.k = "nan" \/ y.k = "nan" THEN FALSE ELSE x = y

\* ------------------------------------------------------ units and commands
\* units.rs:176-187 and 227-237: (long name, short name, member)
LengthDisplayMap ==
    {<<"meter", "m", "Meter">>, <<"centimeter", "cm", "Centimeter">>,
     <<"kilometer", "km", "Kilometer">>, <<"yard", "yd", "Yard">>,
     <<"foot", "ft", "Foot">>, <<"inch", "in", "Inch">>}

MassDisplayMap ==
    {<<"kilogram", "kg", "Kilogram">>, <<"gram", "g", "Gram">>,
     <<"ton", "t", "Ton">>, <<"pound", "lb", "Pound">>, <<"ounce", "oz", "Ounce">>}

\* units.rs:156-162, Unitlike::from_str over a display map
UnitlikeFromStr(map, s) ==
    IF \E e \in map : s = e[1] \/ s = e[2]
    THEN Some((CHOOSE e \in map : s = e[1] \/ s = e[2])[3])
    ELSE None

\* units.rs:117-132, Unit::from_str: length, then mass, then currency
UnitFromStr(s) ==
    IF UnitlikeFromStr(LengthDisplayMap, s) # None
    THEN Some([family |-> "Length", member |-> unwrap(UnitlikeFromStr(LengthDisplayMap, s))])
    ELSE IF UnitlikeFromStr(MassDisplayMap, s) # None
    THEN Some([family |-> "Mass", member |-> unwrap(UnitlikeFromStr(MassDisplayMap, s))])
    ELSE IF CurrencyFromStr(s) # None
    THEN Some([family |-> "Currency", member |-> unwrap(CurrencyFromStr(s))])
    ELSE None

\* equality of Units as a derived PartialEq would have it: the members too
UnitEq_members(a, b) == a = b

\* units.rs:101-105, PartialEq for Unit: the discriminants are compared
UnitEq(a, b) == a.family = b.family

\* units.rs:27-32 with derive(PartialEq): the magnitudes (Option<f64>) and
\* the units are compared
ValueEq(a, b) ==
    /\ IF a.value = None \/ b.value = None
       THEN a.value = b.value
       ELSE F64Eq(unwrap(a.value), unwrap(b.value))
    /\ UnitEq(a.unit, b.unit)

\* units.rs:35-40, Value::new
ValueNew(value, unit) == [value |-> Some(value), unit |-> unit]

\* the decimal digits, and a text of them as a number
DigitChars == <<"0", "1", "2", "3", "4", "5", "6", "7", "8", "9">>

DigitSet == {DigitChars[i] : i \in DOMAIN DigitChars}

DigitValue(c) == (CHOOSE i \in DOMAIN DigitChars : DigitChars[i] = c) - 1

RECURSIVE BigFromDigits(_)
BigFromDigits(ds) ==
    IF ds = <<>> THEN <<>>
    ELSE IF Len(ds) = 1 THEN BigFromInt(DigitValue(ds[1]))
    ELSE LET half == Len(ds) \div 2
             high == SubSeq(ds, 1, half)
             low == SubSeq(ds, half + 1, Len(ds))
         IN  BigAdd(BigMul(BigFromDigits(high), BigPow10(Len(low))), BigFromDigits(low))

\* commands.rs:57-59, str::parse::<f64> of digits with an optional fraction:
\* the f64 nearest to the decimal number
ParseF64(text) ==
    LET dots == {i \in DOMAIN text : text[i] = "."}
        dot == IF dots = {} THEN Len(text) + 1 ELSE CHOOSE i \in dots : TRUE
        whole == SubSeq(text, 1, dot - 1)
        frac == SubSeq(text, dot + 1, Len(text))
    IN  F64FromRatio(BigFromDigits(whole \o frac), BigPow10(Len(frac)))

\* the f64 literals of units.rs:203-264
F64One == F64FromInt(1)

F64Hundred == F64FromInt(100)

F64Thousand == F64FromInt(1000)

YardInMeters == F64FromRatio(BigFromInt(9144), BigPow10(4))

FootInMeters == F64FromRatio(BigFromInt(3048), BigPow10(4))

InchInMeters == F64FromRatio(BigFromInt(254), BigPow10(4))

PoundInKilograms == F64FromRatio(BigFromInt(453592), BigPow10(6))

OunceInKilograms == F64FromRatio(BigFromInt(283495), BigPow10(7))

\* units.rs:203-215, LengthUnit::to_base_unit
LengthToBase(member, value) ==
    CASE member = "Meter" -> value
      [] member = "Centimeter" -> F64Div(value, F64Hundred)
      [] member = "Kilometer" -> F64Mul(value, F64Thousand)
      [] member = "Yard" -> F64Mul(value, YardInMeters)
      [] member = "Foot" -> F64Mul(value, FootInMeters)
      [] member = "Inch" -> F64Mul(value, InchInMeters)

\* units.rs:253-264, MassUnit::to_base_unit
MassToBase(member, value) ==
    CASE member = "Kilogram" -> value
      [] member = "Gram" -> F64Div(value, F64Thousand)
      [] member = "Ton" -> F64Mul(value, F64Thousand)
      [] member = "Pound" -> F64Mul(value, PoundInKilograms)
      [] member = "Ounce" -> F64Mul(value, OunceInKilograms)

\* units.rs:135, to_base_unit of a length or a mass unit
to_base_unit(unit, value) ==
    IF unit.family = "Length"
    THEN LengthToBase(unit.member, value)
    ELSE MassToBase(unit.member, value)

\* from_base_unit as a product with the unit's factor instead of a quotient
from_base_unit_times(unit, value) == F64Mul(value, to_base_unit(unit, F64One))

\* units.rs:136-139, Convertable::from_base_unit
from_base_unit(unit, value) == F64Div(value, to_base_unit(unit, F64One))

\* convert without the division by the factor of the target unit
convert_to_base_only(value, from, to) == to_base_unit(from, value)

\* units.rs:140-143 and 77-86, Convertable::convert through Unit::convert
convert(value, from, to) == from_base_unit(to, to_base_unit(from, value))

\* convert_to without the check of the families: the magnitude is handed on
\* under the other unit
convert_to_lenient(self, to) ==
    IF self.value = None
    THEN [kind |-> "Err", message |-> <<"Value is None">>]
    ELSE IF ~UnitEq(self.unit, to)
    THEN [kind |-> "Ok", value |-> ValueNew(unwrap(self.value), to)]
    ELSE [kind |-> "Ok", value |-> ValueNew(convert(unwrap(self.value), self.unit, to), to)]

\* units.rs:42-57, Value::convert_to between units of length and mass
convert_to(self, to) ==
    IF self.value = None
    THEN [kind |-> "Err", message |-> <<"Value is None">>]
    ELSE IF ~UnitEq(self.unit, to)
    THEN [kind |-> "Err",
          message |-> <<"Cannot convert from", self.unit.member, to.member>>]
    ELSE [kind |-> "Ok", value |-> ValueNew(convert(unwrap(self.value), self.unit, to), to)]

\* units.rs:165-174 and 217-225, in declaration order
LengthUnit == <<"Meter", "Centimeter", "Kilometer", "Yard", "Foot", "Inch">>

MassUnit == <<"Kilogram", "Gram", "Ton", "Pound", "Ounce">>

\* Unit::iter() in the alphabetical order of the variants' names
UnitIter_by_name == <<"Currency", "Length", "Mass">>

\* units.rs:69-74, Unit::iter() of strum's EnumIter: the variants in
\* declaration order (each with the default member, which is not looked at)
UnitIter == <<"Length", "Mass", "Currency">>

\* units.rs:90-95, the iterator of a family's members, each made a Unit
MembersOf(family) ==
    LET members == CASE family = "Length" -> LengthUnit
                     [] family = "Mass" -> MassUnit
                     [] family = "Currency" -> CurrencyUnit
    IN  [i \in DOMAIN members |-> [family |-> family, member |-> members[i]]]

\* flat_map(..).collect() over the families from the i-th on
RECURSIVE FlatMapMembers(_, _)
FlatMapMembers(families, i) ==
    IF i > Len(families) THEN <<>>
    ELSE MembersOf(families[i]) \o FlatMapMembers(families, i + 1)

\* units.rs:88-99, Unit::get_all_units
get_all_units == FlatMapMembers(UnitIter, 1)

\* An input line, trimmed, as its tokens, the texts that single white space
\* characters part: a conversion expression is
\* <<number, unit text, "->", unit text>>.
Lines ==
    {<<"exit">>, <<"units">>, <<"help">>, <<"bogus">>,
     <<"1", "m", "->", "km">>, <<"1", "m", "->", "kg">>, <<"1", "USD", "->", "m">>,
     <<"1", "furlong", "->", "m">>,
     <<"1", "EUR", "->", "EUR">>, <<"1", "EUR", "->", "USD">>,
     <<"1", "USD", "->", "EUR">>, <<"1", "USD", "->", "USD">>}

\* The decimal number a token ends with when the number is all of the token
\* or follows a character that is no digit, as \d+(?:\.\d+)? finds it in
\* front of the white space.
NumberIn(token) ==
    CASE token = "1" -> Some("1")
      [] token = "x1" -> Some("1")
      [] OTHER -> None

\* units.rs:117-132 on a capture of (.+): the units have no white space in
\* their names, so a capture of several tokens is no unit
UnitFromCapture(tokens) == IF Len(tokens) = 1 THEN UnitFromStr(tokens[1]) ELSE None

\* commands.rs:50-72, try_parse_conversion: the pattern is searched for in
\* the line, not matched against all of it, so the match begins at the first
\* number that has a later " -> " with text on both sides, and the greedy
\* first (.+) runs to the last such arrow
try_parse_conversion(s) ==
    LET arrows(i) == {k \in (i + 2)..(Len(s) - 1) : s[k] = "->"}
        starts == {i \in DOMAIN s : NumberIn(s[i]) # None /\ arrows(i) # {}}
    IN  IF starts = {}
        THEN [kind |-> "Err",
              message |-> "Invalid input. Expression should be in the form <value> <unit> -> <unit>."]
        ELSE LET i == CHOOSE x \in starts : \A y \in starts : x <= y
                 k == CHOOSE x \in arrows(i) : \A y \in arrows(i) : y <= x
                 from_unit == UnitFromCapture(SubSeq(s, i + 1, k - 1))
                 to_unit == UnitFromCapture(SubSeq(s, k + 1, Len(s)))
             IN  IF from_unit = None
                 THEN [kind |-> "Err", message |-> "Invalid unit"]
                 ELSE IF to_unit = None
                 THEN [kind |-> "Err", message |-> "Invalid unit"]
                 ELSE [kind |-> "Convert", value |-> unwrap(NumberIn(s[i])),
                       unit |-> unwrap(from_unit), to |-> unwrap(to_unit)]

\* commands.rs:74-88, Command::from_str
CommandFromStr(s) ==
    IF s = <<"units">> THEN [kind |-> "Units"]
    ELSE IF s = <<"help">> THEN [kind |-> "Help"]
    ELSE IF s = <<"exit">> THEN [kind |-> "Exit"]
    ELSE try_parse_conversion(s)

\* ------------------------------------------------------------------ state
\* The REPL runs on the main thread. A worker is a thread that converts
\* currencies through Value::convert_to while others do, as the tests of
\* units.rs do when the test harness runs them in parallel.
Main == "main"

Workers == {"w1", "w2"}

Threads == {Main} \cup Workers

VARIABLES
    now,        \* the wall clock, Utc::now()
    ticks,      \* how often the clock advanced
    sent,       \* how many requests were sent to the pricing source
    app_id,     \* whether OPENEXCHANGERATES_APP_ID is set in the process
    db,         \* conversion_cache.db: [table, rows]
    proc,       \* "running", "exited" (the loop broke) or "crashed" (a panic on main)
    lazy,       \* the Lazy of CACHE: "uninit", "ready" or "poisoned"
    cache,      \* ConversionCache.cache
    last_time,  \* ConversionCache.last_time
    lock,       \* the Mutex of CACHE: None or Some(owner)
    poisoned,   \* the Mutex's poison flag
    pc,         \* per thread: "read", "lock", "net" or "dead"
    frame,      \* per thread: the conversion it is in
    output,     \* the line written, or the result returned, in the last step
    last,       \* the get_base_rate call that ended in the last step, if one did
    latest,     \* what the latest get_base_rate call of the process was and gave
    work        \* a Value a caller of the units API holds, and what it did with it

vars ==
    <<now, ticks, sent, app_id, db, proc, lazy, cache, last_time, lock, poisoned,
      pc, frame, output, last, latest, work>>

NoFrame ==
    [from |-> "", to |-> "", stage |-> 0, rate |-> 0, waited |-> FALSE, called_at |-> 0]

NoOutput == [by |-> "", text |-> <<>>]

NoLatest == [from |-> "", result |-> <<"none">>, refresh |-> "none"]

NoWork == [stage |-> "none", source |-> <<>>, to |-> <<>>, result |-> <<>>,
           other |-> <<>>, equal |-> FALSE]

NoCall ==
    [ended |-> FALSE, by |-> "", from |-> "", result |-> <<"none">>, requests |-> 0,
     attempt |-> FALSE, update |-> "none", called_at |-> 0, waited |-> FALSE,
     prior |-> None, before |-> NoLatest, timestamp |-> JAbsent,
     given |-> <<"none">>, saved |-> "none"]

Init ==
    /\ now = 0
    /\ ticks = 0
    /\ sent = 0
    /\ app_id \in BOOLEAN
    /\ db \in InitialSnapshots
    /\ proc = "running"
    /\ lazy = "uninit"
    /\ cache = EmptyTable
    /\ last_time = None
    /\ lock = None
    /\ poisoned = FALSE
    /\ pc = [t \in Threads |-> "read"]
    /\ frame = [t \in Threads |-> NoFrame]
    /\ output = NoOutput
    /\ last = NoCall
    /\ latest = NoLatest
    /\ work = NoWork

\* the currency the thread's current get_base_rate call is for:
\* to_base_unit of the source unit, then of the target unit (units.rs:136-143)
Requested(t) == IF frame[t].stage = 1 THEN frame[t].from ELSE frame[t].to

\* the record of a get_base_rate call of thread t that ends in this step
Ended(t, result, requests, attempt, status) ==
    [ended |-> TRUE, by |-> t, from |-> Requested(t),
     result |-> result, requests |-> requests, attempt |-> attempt,
     update |-> status, called_at |-> frame[t].called_at, waited |-> frame[t].waited,
     prior |-> last_time, before |-> latest, timestamp |-> JAbsent,
     given |-> <<"none">>, saved |-> "none"]

\* what is kept of an ended call for the next one to be compared with
Kept(call) ==
    [from |-> call.from,
     result |-> IF call.result[1] = "Ok" THEN call.result ELSE <<call.result[1]>>,
     refresh |-> IF ~call.attempt THEN "none"
                 ELSE IF call.update = "ok" THEN "ok" ELSE "failed"]

\* units.rs:306-317 and 136-143: to_base_unit releases the lock and maps the
\* result; after the source unit's rate the target unit's is looked up, and
\* an Err ends the conversion with its text (commands.rs:26-31)
Return(t, result) ==
    /\ lock' = None
    /\ IF result[1] = "Ok" /\ frame[t].stage = 1
       THEN /\ pc' = [pc EXCEPT ![t] = "lock"]
            /\ frame' = [frame EXCEPT ![t] =
                            [@ EXCEPT !.stage = 2, !.rate = result[2], !.waited = FALSE]]
            /\ output' = NoOutput
       ELSE /\ pc' = [pc EXCEPT ![t] = "read"]
            /\ frame' = [frame EXCEPT ![t] = NoFrame]
            /\ output' = [by |-> t,
                           text |-> IF result[1] = "Ok"
                                    THEN <<"value", frame[t].to, frame[t].rate, result[2]>>
                                    ELSE <<"Conversion error", "API error", result[2]>>]

\* a panic of thread t: the guard it holds, if any, poisons the mutex as it
\* is dropped; a panic of the main thread ends the process
Panic(t, holding) ==
    /\ lock' = IF holding THEN None ELSE lock
    /\ poisoned' = (poisoned \/ holding)
    /\ pc' = [pc EXCEPT ![t] = "dead"]
    /\ frame' = [frame EXCEPT ![t] = NoFrame]
    /\ proc' = IF t = Main THEN "crashed" ELSE proc
    /\ output' = NoOutput

\* units.rs:42-57 and 77-86 for currency units: the conversion starts with
\* to_base_unit of the source unit
StartConversion(t, from, to) ==
    /\ pc' = [pc EXCEPT ![t] = "lock"]
    /\ frame' = [frame EXCEPT ![t] =
                    [from |-> from, to |-> to, stage |-> 1, rate |-> 0,
                     waited |-> (\E u \in Threads \ {t} : pc[u] = "net"),
                     called_at |-> 0]]
    /\ output' = NoOutput

\* ---------------------------------------------------------------- actions
\* time passes
Tick(d) ==
    /\ ticks < MaxTicks
    /\ ticks' = ticks + 1
    /\ now' = now + d
    /\ last' = NoCall
    /\ output' = NoOutput
    /\ UNCHANGED <<sent, app_id, db, proc, lazy, cache, last_time, lock, poisoned,
                   pc, frame, latest>>
    /\ UNCHANGED work

\* cli.rs:14-29, one round of the loop on an input that is not a currency
\* conversion: exit breaks, every other command is executed and its text
\* written (commands.rs:22-45), a parse error is written
Interact(line) ==
    /\ proc = "running"
    /\ pc[Main] = "read"
    /\ LET command == CommandFromStr(line)
       IN  /\ ~(command.kind = "Convert" /\ command.unit.family = "Currency"
                    /\ command.to.family = "Currency")
           /\ proc' = IF command.kind = "Exit" THEN "exited" ELSE "running"
           /\ output' = [by |-> Main, text |->
                 CASE command.kind = "Exit" -> <<>>
                   [] command.kind = "Units" -> <<"Available units:">> \o get_all_units
                   [] command.kind = "Help" -> <<"HEEEEELP!">>
                   [] command.kind = "Err" -> <<command.message>>
                   [] command.kind = "Convert" ->
                        IF ~UnitEq(command.unit, command.to)
                        THEN <<"Conversion error", "Cannot convert from",
                               command.unit.member, command.to.member>>
                        ELSE <<"value", command.to.member>>]
    /\ last' = NoCall
    /\ UNCHANGED <<now, ticks, sent, app_id, db, lazy, cache, last_time, lock, poisoned,
                   pc, frame, latest>>
    /\ UNCHANGED work

\* cli.rs:14-29 on a currency conversion: Command::execute calls convert_to
InteractCurrency(line) ==
    /\ proc = "running"
    /\ pc[Main] = "read"
    /\ LET command == CommandFromStr(line)
       IN  /\ command.kind = "Convert"
           /\ command.unit.family = "Currency"
           /\ command.to.family = "Currency"
           /\ StartConversion(Main, command.unit.member, command.to.member)
    /\ last' = NoCall
    /\ UNCHANGED <<now, ticks, sent, app_id, db, proc, lazy, cache, last_time, lock,
                   poisoned, latest>>
    /\ UNCHANGED work

\* another thread calls Value::convert_to between two currency units
WorkerConvert(t, from, to) ==
    /\ proc = "running"
    /\ t \in Workers
    /\ pc[t] = "read"
    /\ StartConversion(t, from, to)
    /\ last' = NoCall
    /\ UNCHANGED <<now, ticks, sent, app_id, db, proc, lazy, cache, last_time, lock,
                   poisoned, latest>>
    /\ UNCHANGED work

\* units.rs:13 and 308: the first use of CACHE runs ConversionCache::new();
\* a panic in it poisons the Lazy
LazyInit(t) ==
    /\ proc = "running"
    /\ pc[t] = "lock"
    /\ lazy = "uninit"
    /\ LET made == new(db, now)
       IN  IF made.status = "panic"
           THEN /\ lazy' = "poisoned"
                /\ Panic(t, FALSE)
                /\ UNCHANGED <<cache, last_time>>
           ELSE /\ lazy' = "ready"
                /\ cache' = made.table
                /\ last_time' = made.last_time
                /\ output' = NoOutput
                /\ UNCHANGED <<lock, poisoned, pc, frame, proc>>
    /\ last' = NoCall
    /\ UNCHANGED <<now, ticks, sent, app_id, db, latest>>
    /\ UNCHANGED work

\* units.rs:308-310: a poisoned Lazy panics on use, and lock().unwrap()
\* panics on a poisoned mutex
LockPanics(t) ==
    /\ proc = "running"
    /\ pc[t] = "lock"
    /\ \/ lazy = "poisoned"
       \/ lazy = "ready" /\ lock = None /\ poisoned
    /\ Panic(t, FALSE)
    /\ last' = NoCall
    /\ UNCHANGED <<now, ticks, sent, app_id, db, lazy, cache, last_time, latest>>
    /\ UNCHANGED work

\* CanLock without the mutex
CanLock_unlocked(t) ==
    /\ proc = "running"
    /\ pc[t] = "lock"
    /\ lazy = "ready"
    /\ ~poisoned

\* thread t can take the lock and call get_base_rate
CanLock(t) ==
    /\ proc = "running"
    /\ pc[t] = "lock"
    /\ lazy = "ready"
    /\ lock = None
    /\ ~poisoned

\* currency.rs:43-46: the table is not expired and has the rate
CacheHit(t) ==
    /\ CanLock(t)
    /\ ~needs_refresh(cache, last_time, Requested(t), now)
    /\ LET result == lookup(cache, Requested(t))
       IN  /\ Return(t, result)
           /\ last' = [Ended(t, result, 0, FALSE, "none") EXCEPT !.called_at = now]
           /\ latest' = Kept(last')
    /\ UNCHANGED <<now, ticks, sent, app_id, db, proc, lazy, cache, last_time, poisoned>>
    /\ UNCHANGED work

\* MissingCredential with std::env::var(..).unwrap(): the absent credential
\* is a panic under the lock
MissingCredential_unwrap(t) ==
    /\ CanLock(t)
    /\ needs_refresh(cache, last_time, Requested(t), now)
    /\ ~app_id
    /\ Panic(t, TRUE)
    /\ last' = [Ended(t, <<"panic">>, 0, TRUE, "none") EXCEPT !.called_at = now]
    /\ latest' = Kept(last')
    /\ UNCHANGED <<now, ticks, sent, app_id, db, lazy, cache, last_time>>
    /\ UNCHANGED work

\* currency.rs:62-65: request_and_update ends with the Err of request when
\* the credential is not set
MissingCredential(t) ==
    /\ CanLock(t)
    /\ needs_refresh(cache, last_time, Requested(t), now)
    /\ ~app_id
    /\ LET result == <<"Err", "API key not found">>
       IN  /\ Return(t, result)
           /\ last' = [Ended(t, result, 0, TRUE, "none") EXCEPT !.called_at = now]
           /\ latest' = Kept(last')
    /\ UNCHANGED <<now, ticks, sent, app_id, db, proc, lazy, cache, last_time, poisoned>>
    /\ UNCHANGED work

\* currency.rs:66: the blocking GET is sent, with the lock held
SendRequest(t) ==
    /\ CanLock(t)
    /\ needs_refresh(cache, last_time, Requested(t), now)
    /\ app_id
    /\ sent < MaxRequests
    /\ sent' = sent + 1
    /\ lock' = Some(t)
    /\ pc' = [pc EXCEPT ![t] = "net"]
    /\ frame' = [frame EXCEPT ![t].called_at = now]
    /\ last' = NoCall
    /\ output' = NoOutput
    /\ UNCHANGED <<now, ticks, app_id, db, proc, lazy, cache, last_time, poisoned,
                   latest>>
    /\ UNCHANGED work

\* currency.rs:66-67 with 169-175: the transport fails or the body is no JSON
TransportError(t) ==
    /\ proc = "running"
    /\ pc[t] = "net"
    /\ LET result == <<"Err", "reqwest error">>
       IN  /\ Return(t, result)
           /\ last' = Ended(t, result, 1, TRUE, "none")
           /\ latest' = Kept(last')
    /\ UNCHANGED <<now, ticks, sent, app_id, db, proc, lazy, cache, last_time, poisoned>>
    /\ UNCHANGED work

\* the rate the response gives for currency c, if it gives one
given(response, c) ==
    IF response.rates = None THEN None
    ELSE IF CurrencyToString(c) \notin RateKeySet THEN None
    ELSE as_f64(unwrap(response.rates)[CurrencyToString(c)])

\* currency.rs:55 and 73-99: the body arrives and update runs on it; after an
\* Ok the table is saved (whatever the store does) and the rate looked up
Receive(t, response) ==
    /\ proc = "running"
    /\ pc[t] = "net"
    /\ LET updated == update(cache, last_time, response, now)
       IN  /\ cache' = updated.table
           /\ last_time' = updated.last_time
           /\ CASE updated.status = "panic" ->
                     /\ Panic(t, TRUE)
                     /\ db' = db
                     /\ last' = [Ended(t, <<"panic">>, 1, TRUE, "panic")
                                   EXCEPT !.timestamp = response.timestamp]
                [] updated.status = "err" ->
                     /\ Return(t, <<"Err", updated.message>>)
                     /\ UNCHANGED <<db, proc, poisoned>>
                     /\ last' = [Ended(t, <<"Err", updated.message>>, 1, TRUE, "err")
                                   EXCEPT !.timestamp = response.timestamp]
                [] updated.status = "ok" ->
                     /\ \E saved \in save_to_db(db, updated.table, updated.last_time) :
                            /\ db' = saved.store
                            /\ LET result == IF after_save(saved) = "ok"
                                              THEN lookup(updated.table, Requested(t))
                                              ELSE <<"Err", "store error">>
                               IN  /\ Return(t, result)
                                   /\ last' = [Ended(t, result, 1, TRUE, after_save(saved))
                                                 EXCEPT !.timestamp = response.timestamp,
                                                        !.given = given(response, Requested(t)),
                                                        !.saved = saved.result]
                     /\ UNCHANGED <<proc, poisoned>>
    /\ latest' = Kept(last')
    /\ UNCHANGED <<now, ticks, sent, app_id, lazy>>
    /\ UNCHANGED work

\* the program as it ships: the REPL on the main thread
Next ==
    \/ \E d \in {EXPIRE_AFTER, EXPIRE_AFTER + 1} : Tick(d)
    \/ \E line \in Lines : Interact(line)
    \/ \E line \in Lines : InteractCurrency(line)
    \/ LazyInit(Main)
    \/ CacheHit(Main)
    \/ MissingCredential(Main)
    \/ SendRequest(Main)
    \/ TransportError(Main)
    \/ \E response \in Responses(now) : Receive(Main, response)

Spec == Init /\ [][Next]_vars

\* several threads converting currencies at once
NextConcurrent ==
    \/ Tick(EXPIRE_AFTER + 1)
    \/ \E t \in Workers, from, to \in {"EUR", "USD"} : WorkerConvert(t, from, to)
    \/ \E t \in Workers : LazyInit(t)
    \/ \E t \in Workers : LockPanics(t)
    \/ \E t \in Workers : CacheHit(t)
    \/ \E t \in Workers : MissingCredential(t)
    \/ \E t \in Workers : SendRequest(t)
    \/ \E t \in Workers : TransportError(t)
    \/ \E t \in Workers, response \in FewResponses(now) : Receive(t, response)

Concurrent == Init /\ [][NextConcurrent]_vars

\* Concurrent with the progress the program's environment gives: a thread
\* that is at a step it can always take takes it (the first use of CACHE, a
\* panic on a poisoned lock), the blocking request returns with a body or
\* with an error, and a thread that finds the mutex free again and again
\* gets it.
Fairness ==
    \A t \in Workers :
        /\ WF_vars(LazyInit(t))
        /\ WF_vars(LockPanics(t))
        /\ SF_vars(CacheHit(t))
        /\ SF_vars(MissingCredential(t))
        /\ SF_vars(SendRequest(t))
        /\ WF_vars(TransportError(t) \/ \E response \in FewResponses(now) : Receive(t, response))

FairConcurrent == Init /\ [][NextConcurrent]_vars /\ Fairness

\* ---------------------------------------------------- the units API alone
\* the units of length and mass, and all units (units.rs:88-99)
MeasureUnits ==
    {[family |-> "Length", member |-> e[3]] : e \in LengthDisplayMap}
    \cup {[family |-> "Mass", member |-> e[3]] : e \in MassDisplayMap}

AllUnits == MeasureUnits \cup {[family |-> "Currency", member |-> c] : c \in CurrencySet}

\* a magnitude near the top of the f64 range: 17 followed by 307 zeros
HugeText == <<"1", "7">> \o [i \in 1..307 |-> "0"]

HugeValue == ParseF64(HugeText)

\* the magnitudes as the user types them: 0 .. MaxValue in decimal digits,
\* 2.5 and the huge one
RECURSIVE DecimalText(_)
DecimalText(n) ==
    IF n < 10 THEN <<DigitChars[n + 1]>>
    ELSE DecimalText(n \div 10) \o <<DigitChars[(n % 10) + 1]>>

ValueTexts ==
    {DecimalText(n) : n \in 0..MaxValue} \cup {<<"2", ".", "5">>, HugeText}

\* the Values a caller starts with
SourceValues ==
    LET magnitudes == {ParseF64(text) : text \in ValueTexts}
    IN  {ValueNew(value, unit) : value \in magnitudes, unit \in AllUnits}

\* the Values a caller compares with
OtherValues ==
    {ValueNew(ParseF64(text), unit) :
        text \in {<<"0">>, <<"1">>, <<"2", ".", "5">>},
        unit \in {u \in AllUnits : u.member \in {"Meter", "Kilometer", "Kilogram", "USD"}}}

InitUnits ==
    /\ now = 0
    /\ ticks = 0
    /\ sent = 0
    /\ app_id = FALSE
    /\ db = NoStore
    /\ proc = "running"
    /\ lazy = "uninit"
    /\ cache = EmptyTable
    /\ last_time = None
    /\ lock = None
    /\ poisoned = FALSE
    /\ pc = [t \in Threads |-> "read"]
    /\ frame = [t \in Threads |-> NoFrame]
    /\ output = NoOutput
    /\ last = NoCall
    /\ latest = NoLatest
    /\ \E source \in SourceValues : work = [NoWork EXCEPT !.stage = "given", !.source = source]

cacheVars ==
    <<now, ticks, sent, app_id, db, proc, lazy, cache, last_time, lock, poisoned,
      pc, frame, output, last, latest>>

\* units.rs:42-57: the caller converts the Value it holds; a conversion between
\* two currencies goes through CACHE and is the business of Spec and Concurrent
ConvertTo(to) ==
    /\ work.stage = "given"
    /\ ~(work.source.unit.family = "Currency" /\ to.family = "Currency")
    /\ work' = [work EXCEPT !.stage = "converted", !.to = to,
                            !.result = convert_to(work.source, to)]
    /\ UNCHANGED cacheVars

\* the caller converts the Value it got back to the unit it started from
ConvertBack ==
    /\ work.stage = "converted"
    /\ work.result.kind = "Ok"
    /\ work' = [work EXCEPT !.stage = "returned",
                            !.result = convert_to(work.result.value, work.source.unit)]
    /\ UNCHANGED cacheVars

\* units.rs:27-32 and 101-105: the caller compares the Value it holds with another
Compare(other) ==
    /\ work.stage = "given"
    /\ work' = [work EXCEPT !.stage = "compared", !.other = other,
                            !.equal = ValueEq(work.source, other)]
    /\ UNCHANGED cacheVars

NextUnits ==
    \/ \E to \in AllUnits : ConvertTo(to)
    \/ ConvertBack
    \/ \E other \in OtherValues : Compare(other)

Units == InitUnits /\ [][NextUnits]_vars

\* ------------------------------------------------------ the update alone
\* the tables and times of last refresh an update finds
FoundTables == {EmptyTable, [EmptyTable EXCEPT !["EUR"] = Some(1)]}

FoundTimes == {None, Some(0)}

InitUpdating ==
    /\ now = 0
    /\ ticks = 0
    /\ sent = 0
    /\ app_id = FALSE
    /\ db = NoStore
    /\ proc = "running"
    /\ lazy = "uninit"
    /\ cache = EmptyTable
    /\ last_time = None
    /\ lock = None
    /\ poisoned = FALSE
    /\ pc = [t \in Threads |-> "read"]
    /\ frame = [t \in Threads |-> NoFrame]
    /\ output = NoOutput
    /\ last = NoCall
    /\ latest = NoLatest
    /\ \E table \in FoundTables, lt \in FoundTimes, response \in Responses(0) :
           work = [NoWork EXCEPT !.stage = "fetched",
                                 !.source = [table |-> table, last_time |-> lt],
                                 !.other = response]

\* currency.rs:73-99, update on the response
Update ==
    /\ work.stage = "fetched"
    /\ work' = [work EXCEPT !.stage = "updated",
                            !.result = update(work.source.table, work.source.last_time,
                                              work.other, now)]
    /\ UNCHANGED cacheVars

NextUpdating == Update

Updating == InitUpdating /\ [][NextUpdating]_vars

\* ------------------------------------------------------- the parser alone
\* the most tokens of a line the user types
MaxLine == 5

Tokens == {"1", "x1", "m", "km", "furlong", "->"}

RECURSIVE LinesOf(_)
LinesOf(n) ==
    IF n = 0 THEN {<<>>}
    ELSE {<<token>> \o line : token \in Tokens, line \in LinesOf(n - 1)}

\* the lines the user types: those of the REPL's model, and every line of up
\* to MaxLine of the tokens
TypedLines == Lines \cup UNION {LinesOf(n) : n \in 1..MaxLine}

InitParsing ==
    /\ now = 0
    /\ ticks = 0
    /\ sent = 0
    /\ app_id = FALSE
    /\ db = NoStore
    /\ proc = "running"
    /\ lazy = "uninit"
    /\ cache = EmptyTable
    /\ last_time = None
    /\ lock = None
    /\ poisoned = FALSE
    /\ pc = [t \in Threads |-> "read"]
    /\ frame = [t \in Threads |-> NoFrame]
    /\ output = NoOutput
    /\ last = NoCall
    /\ latest = NoLatest
    /\ \E line \in TypedLines : work = [NoWork EXCEPT !.stage = "typed", !.source = line]

\* cli.rs:22, input.trim().parse(): the line is parsed
Parse ==
    /\ work.stage = "typed"
    /\ work' = [work EXCEPT !.stage = "parsed", !.result = CommandFromStr(work.source)]
    /\ UNCHANGED cacheVars

NextParsing == Parse

Parsing == InitParsing /\ [][NextParsing]_vars

\* ----------------------------------------------------------------- claims
\* the table is within the expiration window at time t: it has a timestamp
\* and no more than the expiration duration has passed since
WithinWindow(lt, t) == IF lt = None THEN FALSE ELSE t - unwrap(lt) <= EXPIRE_AFTER

\* the expiration window has elapsed at time t
WindowElapsed(lt, t) == IF lt = None THEN FALSE ELSE t - unwrap(lt) > EXPIRE_AFTER

\* the response has an entry whose rate is no number
HasBadRate(response) ==
    IF response.rates = None
    THEN FALSE
    ELSE \E k \in RateKeySet : unwrap(response.rates)[k] \notin {JAbsent} \cup {JNum(r) : r \in Rates}

\* the response has a rates object and every rate in it is a number
RatesWellFormed(response) == response.rates # None /\ ~HasBadRate(response)

\* the recognized currency-to-rate entries of the response
Recognized(response) ==
    [c \in CurrencySet |->
        IF c \in RateKeySet /\ unwrap(response.rates)[c] \in {JNum(r) : r \in Rates}
        THEN Some(unwrap(response.rates)[c][2])
        ELSE None]

\* the timestamp a "timestamp" field gives when it is usable, the wall clock
\* otherwise
UsableTimestamp(field, t) == IF field \in {JNum(0), JNum(t)} THEN field[2] ELSE t

\* C1: a get_base_rate call that directly follows one for the same currency
\* that returned a rate, and is made within the expiration window, returns
\* the same rate and sends no request.
C1_RepeatedCallIsServedFromCache ==
    (/\ last.ended
     /\ last.before.from = last.from
     /\ last.before.result[1] = "Ok"
     /\ WithinWindow(last.prior, last.called_at))
    => (last.result = last.before.result /\ last.requests = 0)

\* C1's case: a second call for the same currency was served from the cache,
\* at a later time than the table's timestamp
C1_Witness ==
    /\ last.ended
    /\ last.before.from = last.from
    /\ last.before.result[1] = "Ok"
    /\ last.result = last.before.result
    /\ last.requests = 0
    /\ last.prior # None
    /\ last.called_at > unwrap(last.prior)

\* C2: a refresh whose response has an entry with a rate that is no number
\* returns the invalid-rate error and leaves the table and the timestamp as
\* they were.
C2_BadRateLeavesCacheUntouched ==
    [][(pc[Main] = "net" /\ last'.update \in {"ok", "err"})
       => \A response \in Responses(now) :
             (HasBadRate(response) /\ Receive(Main, response))
             => (/\ last'.result = <<"Err", "Invalid rate format">>
                 /\ cache' = cache
                 /\ last_time' = last_time)]_vars

\* C3: whenever the cache has no timestamp its table is empty.
C3_NoTimestampNoTable ==
    (lazy = "ready" /\ last_time = None) => cache = EmptyTable

\* C4: after a successful refresh the table holds exactly the recognized
\* entries of the response.
C4_RefreshReplacesTable ==
    [][(pc[Main] = "net" /\ last'.update = "ok")
       => \A response \in Responses(now) :
             Receive(Main, response) => cache' = Recognized(response)]_vars

\* C5: a get_base_rate call whose refresh succeeds returns the rate the
\* response gives for the currency, or the rate-not-found error when the
\* response has none for it.
C5_RefreshedRateIsFromResponse ==
    [][(pc[Main] = "net" /\ last'.update = "ok")
       => \A response \in Responses(now) :
             Receive(Main, response)
             => last'.result =
                    IF Recognized(response)[last'.from] # None
                    THEN <<"Ok", unwrap(Recognized(response)[last'.from])>>
                    ELSE <<"Err", "Rate not found">>]_vars

\* C6 as stated: a get_base_rate call made after the expiration window has
\* elapsed sends exactly one request and sets the timestamp.
C6_AsStated ==
    (last.ended /\ WindowElapsed(last.prior, last.called_at))
    => (last.requests = 1 /\ last.update = "ok")

\* C6, amended: a get_base_rate call made after the expiration window has
\* elapsed sends one request when the credential is set and none when it is
\* not; the timestamp is set, to the response's timestamp when that is usable
\* and to the wall clock otherwise, when the refresh succeeds, and is left as
\* it was when the refresh does not.
C6_ExpiredCallRefreshesOnce ==
    (last.ended /\ WindowElapsed(last.prior, last.called_at))
    => (/\ last.requests = IF app_id THEN 1 ELSE 0
        /\ last.update # "ok" => last_time = last.prior
        /\ last.update = "ok" => last_time = Some(UsableTimestamp(last.timestamp, now)))

\* C6's case: a call after the window elapsed refreshed the table and the
\* timestamp changed
C6_Witness ==
    /\ last.ended
    /\ WindowElapsed(last.prior, last.called_at)
    /\ last.requests = 1
    /\ last.update = "ok"
    /\ last_time # last.prior

\* C7: a refresh whose response has well-formed rates succeeds whatever its
\* timestamp field is, and sets the timestamp to the response's when that is
\* usable and to the wall clock otherwise.
C7_BadTimestampNeverFailsRefresh ==
    [][(pc[Main] = "net" /\ last'.ended)
       => \A response \in Responses(now) :
             (RatesWellFormed(response) /\ Receive(Main, response))
             => (/\ last'.update = "ok"
                 /\ last_time' = Some(UsableTimestamp(response.timestamp, now)))]_vars

\* C8: no error ends the process; the loop is left only on exit.
C8_OnlyExitEndsProcess == proc # "crashed"

\* C9: a get_base_rate call whose refresh fails sends at most one request,
\* and the next call for the same currency attempts a refresh again.
C9_FailedRefreshIsRetriedByNextCall ==
    /\ last.ended => last.requests <= 1
    /\ (last.ended /\ last.before.refresh = "failed" /\ last.before.from = last.from)
       => last.attempt

\* at most one refresh (request and table update) is in flight
OneRefreshInFlight == Cardinality({t \in Threads : pc[t] = "net"}) <= 1

\* the table thread t finds is within the window and holds its currency
FreshAndHolds(t) == WithinWindow(last_time, now) /\ cache[Requested(t)] # None

\* C10 as stated: at most one refresh is in flight, and a caller that arrived
\* while another caller's refresh was in progress sends no request.
C10_AsStated ==
    /\ []OneRefreshInFlight
    /\ [][\A t \in Workers : (frame[t].waited /\ pc[t] = "lock") => pc'[t] # "net"]_vars

\* C10, amended: at most one refresh is in flight; a caller that arrived
\* while another caller's refresh was in progress goes on only once the lock
\* is free, gets the rate without a request when the table it then finds is
\* within the window and holds its currency, and sends a request of its own
\* only when that table is expired or lacks its currency.
C10_RefreshesAreSerialized ==
    /\ []OneRefreshInFlight
    /\ [][\A t \in Workers :
             (frame[t].waited /\ pc[t] = "lock")
             => (/\ pc'[t] = "net" => (lock = None /\ ~FreshAndHolds(t))
                 /\ (last'.ended /\ last'.by = t)
                    => (/\ lock = None
                        /\ FreshAndHolds(t)
                           => (/\ last'.requests = 0
                               /\ last'.result = <<"Ok", unwrap(cache[Requested(t)])>>)))]_vars

\* C10's case: a caller that arrived during another caller's refresh got the
\* rate from the refreshed table without a request
C10_Witness ==
    /\ last.ended
    /\ last.waited
    /\ last.requests = 0
    /\ last.result[1] = "Ok"
    /\ sent > 0

\* the stores a save_to_db that returns Ok can leave
SavedStores(store, table, lt) ==
    {saved.store : saved \in {o \in save_to_db(store, table, lt) : o.result = "Ok"}}

\* C11: when a refresh has saved the cache to the store, loading from the
\* store yields a table with exactly the cache's currency-to-rate pairs.
C11_SavedCacheLoadsBack ==
    [][(/\ pc[Main] = "net"
        /\ last'.update = "ok"
        /\ db' \in SavedStores(db, cache', last_time'))
       => (/\ load_from_db(db', now).status = "ok"
           /\ load_from_db(db', now).table = cache')]_vars

\* C12: when update has accepted the response and save_to_db fails, the
\* refresh succeeds all the same: the timestamp is the response's when usable
\* and the wall clock otherwise, and when the response gives a rate for the
\* currency the table holds it and get_base_rate returns it.
C12_FailedSaveDoesNotFailRefresh ==
    (last.ended /\ last.saved = "Err")
    => (/\ last.update = "ok"
        /\ last_time = Some(UsableTimestamp(last.timestamp, now))
        /\ last.given # None
           => (/\ cache[last.from] = last.given
               /\ last.result = <<"Ok", unwrap(last.given)>>))

\* C12's case: a refresh returned the rate the response gave although the
\* store could not even be created
C12_Witness ==
    /\ last.ended
    /\ last.saved = "Err"
    /\ last.given # None
    /\ last.result[1] = "Ok"
    /\ db = NoStore

\* the row can be decoded: a REAL rate, a currency code, a timestamp text
Decodable(row) ==
    /\ row.rate[1] = "real"
    /\ CurrencyFromStr(row.currency) # None
    /\ ParseDateTime(row.last_update) # None

\* the snapshot is absent or unreadable: no store or no table, no rows, or a
\* row that cannot be decoded
AbsentOrUnreadable(store) ==
    \/ ~store.table
    \/ store.rows = <<>>
    \/ \E i \in DOMAIN store.rows : ~Decodable(store.rows[i])

\* C13: a process that finds the snapshot absent or unreadable starts with
\* an empty table and no timestamp.
C13_UnreadableSnapshotStartsStale ==
    [][(lazy = "uninit" /\ lazy' # "uninit" /\ AbsentOrUnreadable(db))
       => (/\ lazy' = "ready"
           /\ cache' = EmptyTable
           /\ last_time' = None)]_vars

\* C14: a get_base_rate call that needs a refresh while the credential is
\* not set returns the missing-credential error without a panic, sends no
\* request, and leaves the table, the timestamp and the store as they were.
C14_MissingCredentialIsAnError ==
    [][(/\ ~app_id
        /\ CanLock(Main)
        /\ needs_refresh(cache, last_time, Requested(Main), now)
        /\ pc'[Main] # "lock")
       => (/\ last'.ended
           /\ last'.result = <<"Err", "API key not found">>
           /\ last'.requests = 0
           /\ sent' = sent
           /\ pc'[Main] = "read"
           /\ proc' = "running"
           /\ ~poisoned'
           /\ cache' = cache
           /\ last_time' = last_time
           /\ db' = db)]_vars

\* C14's case: a call that needed a refresh ended with the missing-credential
\* error
C14_Witness ==
    /\ ~app_id
    /\ last.ended
    /\ last.attempt
    /\ last.result = <<"Err", "API key not found">>
    /\ output.text = <<"Conversion error", "API error", "API key not found">>

\* C15: a conversion between units of different families, whatever the value,
\* is an Err whose message names the source unit and the target unit; it
\* carries no Value, and CACHE is neither initialised nor locked nor changed,
\* and no request is sent.
C15_DifferentFamiliesAlwaysFail ==
    (work.stage = "converted" /\ work.source.unit.family # work.to.family) =>
        /\ work.result = [kind |-> "Err",
                          message |-> <<"Cannot convert from",
                                        work.source.unit.member, work.to.member>>]
        /\ lazy = "uninit"
        /\ lock = None
        /\ cache = EmptyTable
        /\ last_time = None
        /\ sent = 0

C15_Witness ==
    /\ work.stage = "converted"
    /\ work.source.unit = [family |-> "Currency", member |-> "USD"]
    /\ work.source.value = Some(HugeValue)
    /\ work.to = [family |-> "Length", member |-> "Meter"]
    /\ work.result.kind = "Err"

\* C16: converting a Value to the unit it already has gives a Value whose
\* magnitude is exactly the magnitude it had.
C16_IdentityConversionIsExact ==
    (work.stage = "converted" /\ work.to = work.source.unit) =>
        /\ work.result.kind = "Ok"
        /\ work.result.value.value = work.source.value

\* the factor of a unit of length or mass, the number of base units in one of
\* it, as the fraction <<numerator, denominator>> its literal stands for
Factor(unit) ==
    CASE unit.member = "Meter" -> <<1, 1>>
      [] unit.member = "Centimeter" -> <<1, 100>>
      [] unit.member = "Kilometer" -> <<1000, 1>>
      [] unit.member = "Yard" -> <<9144, 10000>>
      [] unit.member = "Foot" -> <<3048, 10000>>
      [] unit.member = "Inch" -> <<254, 10000>>
      [] unit.member = "Kilogram" -> <<1, 1>>
      [] unit.member = "Gram" -> <<1, 1000>>
      [] unit.member = "Ton" -> <<1000, 1>>
      [] unit.member = "Pound" -> <<453592, 1000000>>
      [] unit.member = "Ounce" -> <<283495, 10000000>>

\* the f64 x is the number v * n / d, v an f64 and n, d whole numbers, but
\* for a relative error of at most 2^-48
CloseToRatio(x, v, n, d) ==
    /\ x.k = "fin"
    /\ v.k = "fin"
    /\ LET low == IF x.e < v.e THEN x.e ELSE v.e
           got == BigMul(BigMul(x.m, d), BigPow2(x.e - low))
           exact == BigMul(BigMul(v.m, n), BigPow2(v.e - low))
           error == IF BigCmp(got, exact) >= 0 THEN BigSub(got, exact)
                    ELSE BigSub(exact, got)
       IN  BigCmp(BigMul(error, BigPow2(48)), exact) <= 0

\* an f64 that is zero, or at least 2^-1000 and less than 2^1001
Moderate(v) == v.k = "fin" /\ (v.m = <<>> \/ (v.e >= 0 - 1052 /\ v.e <= 948))

OneThousandth == ParseF64(<<"0", ".", "0", "0", "1">>)

\* C18: a conversion of v from a unit a to a unit b of the same family, of
\* length or of mass, is Ok with a new Value of unit b and of magnitude
\* from_base_unit(b, to_base_unit(a, v)), which for a moderate v is
\* v * factor(a) / factor(b) but for the rounding; the source Value is as it
\* was; 1 m is 0.001 km, 0 m is 0 km and 1 kg is 1000 g.
C18_ConvertIsFromBaseOfToBase ==
    [][(work.stage = "given" /\ work'.stage = "converted"
            /\ UnitEq(work.source.unit, work'.to)) =>
        LET v == unwrap(work.source.value)
            a == work.source.unit
            b == work'.to
        IN  /\ work'.source = work.source
            /\ work'.result =
                   [kind |-> "Ok",
                    value |-> [value |-> Some(from_base_unit(b, to_base_unit(a, v))),
                               unit |-> b]]
            /\ Moderate(v) =>
                   CloseToRatio(unwrap(work'.result.value.value), v,
                                BigMul(BigFromInt(Factor(a)[1]), BigFromInt(Factor(b)[2])),
                                BigMul(BigFromInt(Factor(a)[2]), BigFromInt(Factor(b)[1])))
            /\ (v = F64One /\ a.member = "Meter" /\ b.member = "Kilometer") =>
                   work'.result.value.value = Some(OneThousandth)
            /\ (v = F64Zero /\ a.member = "Meter" /\ b.member = "Kilometer") =>
                   work'.result.value.value = Some(F64Zero)
            /\ (v = F64One /\ a.member = "Kilogram" /\ b.member = "Gram") =>
                   work'.result.value.value = Some(F64Thousand)
    ]_vars

C18_Witness ==
    /\ work.stage = "converted"
    /\ work.source = ValueNew(F64One, [family |-> "Length", member |-> "Meter"])
    /\ work.to = [family |-> "Length", member |-> "Kilometer"]
    /\ work.result = [kind |-> "Ok",
                      value |-> ValueNew(OneThousandth,
                                         [family |-> "Length", member |-> "Kilometer"])]

\* C17: for every value v >= 0 and units u1, u2 of one family, converting v
\* from u1 to u2 and the result back to u1 gives v but for the rounding.
C17_AsStated ==
    work.stage = "returned" =>
        /\ work.result.kind = "Ok"
        /\ CloseToRatio(unwrap(work.result.value.value), unwrap(work.source.value),
                        <<1>>, <<1>>)

\* C17, amended: for every moderate value v (zero, or from 2^-1000 up to
\* 2^1001) and units u1, u2 of length or of mass, converting v from u1 to u2
\* and the result back to u1 gives v but for a relative error of at most 2^-48.
C17_RoundTripOfModerateValues ==
    (work.stage = "returned" /\ Moderate(unwrap(work.source.value))) =>
        /\ work.result.kind = "Ok"
        /\ work.result.value.unit = work.source.unit
        /\ CloseToRatio(unwrap(work.result.value.value), unwrap(work.source.value),
                        <<1>>, <<1>>)

C17_Witness ==
    /\ work.stage = "returned"
    /\ Moderate(unwrap(work.source.value))
    /\ work.to.member # work.source.unit.member
    /\ work.result.kind = "Ok"
    /\ work.result.value.value # work.source.value
    /\ work.result.value.value # Some(F64Zero)

\* C20: two Values compare equal exactly when their magnitudes are equal and
\* their units are of one family, whatever the members: Units are equal
\* exactly when their families are.
C20_EqualityIsOfFamilies ==
    work.stage = "compared" =>
        /\ work.equal <=> (/\ work.source.value = work.other.value
                           /\ work.source.unit.family = work.other.unit.family)
        /\ \A a, b \in {work.source.unit, work.other.unit} :
               UnitEq(a, b) <=> a.family = b.family

C20_Witness ==
    /\ work.stage = "compared"
    /\ work.equal
    /\ work.source.unit.member = "Meter"
    /\ work.other.unit.member = "Kilometer"
    /\ work.source.value = Some(F64One)

\* a line that is a number, a unit, an arrow and a unit
WellFormed(line) ==
    /\ Len(line) = 4
    /\ line[1] = "1"
    /\ UnitFromStr(line[2]) # None
    /\ line[3] = "->"
    /\ UnitFromStr(line[4]) # None

\* C19: "units", "help" and "exit" parse to their commands, a line that is a
\* number, a unit, an arrow and a unit parses to the conversion of that value
\* from the first unit to the second, and every other line is an Err with the
\* one message that describes the form of an expression.
C19_ParseFailureIsTheFixedMessage ==
    work.stage = "parsed" =>
        IF work.source = <<"units">> THEN work.result = [kind |-> "Units"]
        ELSE IF work.source = <<"help">> THEN work.result = [kind |-> "Help"]
        ELSE IF work.source = <<"exit">> THEN work.result = [kind |-> "Exit"]
        ELSE IF WellFormed(work.source)
        THEN work.result = [kind |-> "Convert", value |-> work.source[1],
                            unit |-> unwrap(UnitFromStr(work.source[2])),
                            to |-> unwrap(UnitFromStr(work.source[4]))]
        ELSE work.result =
                 [kind |-> "Err",
                  message |-> "Invalid input. Expression should be in the form <value> <unit> -> <unit>."]

\* the place of x in the sequence seq it occurs in
PlaceIn(seq, x) == CHOOSE i \in DOMAIN seq : seq[i] = x

\* the members of a family as the enum declares them
Declared(family) ==
    CASE family = "Length" -> LengthUnit
      [] family = "Mass" -> MassUnit
      [] family = "Currency" -> CurrencyUnit

\* C21: the units the "units" command lists are every unit of every family,
\* each exactly once, the units of length first, then those of mass, then the
\* currencies, and within a family in the order the members are declared in.
C21_AllUnitsInDeclarationOrder ==
    (Len(output.text) > 0 /\ output.text[1] = "Available units:") =>
        LET listed == Tail(output.text)
        IN  /\ \A u \in AllUnits :
                   Cardinality({i \in DOMAIN listed : listed[i] = u}) = 1
            /\ \A i \in DOMAIN listed : listed[i] \in AllUnits
            /\ \A i, j \in DOMAIN listed :
                   i < j =>
                      IF listed[i].family = listed[j].family
                      THEN PlaceIn(Declared(listed[i].family), listed[i].member)
                              < PlaceIn(Declared(listed[j].family), listed[j].member)
                      ELSE PlaceIn(<<"Length", "Mass", "Currency">>, listed[i].family)
                              < PlaceIn(<<"Length", "Mass", "Currency">>, listed[j].family)

C21_Witness ==
    /\ Len(output.text) = 18
    /\ output.text[1] = "Available units:"
    /\ output.text[2] = [family |-> "Length", member |-> "Meter"]
    /\ output.text[18] = [family |-> "Currency", member |-> "AUD"]

\* C22: a get_base_rate call that finds last_time None, or finds that the
\* expiration window or more has passed since last_time, goes to a refresh;
\* a table whose age is exactly the window is stale.
C22_StaleFromTheWindowOn ==
    last.ended =>
        ((last.prior = None \/ last.called_at - unwrap(last.prior) >= EXPIRE_AFTER)
            => last.attempt)

\* the response without its entries of codes that are no currency
WithoutUnrecognized(response) ==
    IF response.rates = None THEN response
    ELSE [response EXCEPT !.rates =
             Some([k \in RateKeySet |->
                      IF CurrencyFromStr(k) = None THEN JAbsent
                      ELSE unwrap(response.rates)[k]])]

\* C23: an entry of the response whose code is no currency is skipped: the
\* update ends as it would without the entry, with the same table, the same
\* time of last refresh and the same result, whatever the entry's rate is.
C23_UnrecognizedEntriesAreSkipped ==
    work.stage = "updated" =>
        work.result = update(work.source.table, work.source.last_time,
                             WithoutUnrecognized(work.other), now)

\* the greatest of the timestamps the rows carry
LatestOfRows(rows) ==
    LET times == {unwrap(ParseDateTime(rows[i].last_update)) : i \in DOMAIN rows}
    IN  CHOOSE t \in times : \A u \in times : u <= t

\* C24: a load of the store, whenever it has rows and they can be read, makes
\* last_time the greatest timestamp among the rows, also when the rows carry
\* different timestamps.
C24_LoadTakesTheGreatestTimestamp ==
    LET loaded == load_from_db(db, now)
    IN  (db.table /\ db.rows # <<>> /\ loaded.status = "ok") =>
            loaded.last_time = Some(LatestOfRows(db.rows))

\* C25: a get_base_rate call that is served from the table, and one whose
\* refresh fails, leave the table, last_time and the store as they were.
C25_OnlyRefreshMutatesTheCache ==
    [][(last'.ended /\ (~last'.attempt \/ last'.update # "ok"))
          => (cache' = cache /\ last_time' = last_time /\ db' = db)]_vars

\* C26: a get_base_rate call that finds a table that is not expired and has
\* no entry for the currency goes to a refresh as a call on an expired table
\* does: with the credential one request is sent, and when update accepts
\* the response the table and last_time are updated, the table is saved, and
\* the result is the rate the table then holds or "Rate not found"; the call
\* never fails without the refresh.
C26_AbsentFromFreshTableRefreshes ==
    [][(/\ last'.ended
        /\ ~is_expired(last_time, last'.called_at)
        /\ cache[last'.from] = None)
       => (/\ last'.attempt
           /\ last'.requests = (IF app_id THEN 1 ELSE 0)
           /\ ~app_id => last'.result = <<"Err", "API key not found">>
           /\ last'.update = "ok" =>
                 (/\ last_time' = Some(UsableTimestamp(last'.timestamp, now))
                  /\ db' \in {saved.store : saved \in save_to_db(db, cache', last_time')}
                  /\ last'.result = lookup(cache', last'.from)
                  /\ last'.given # None =>
                         last'.result = <<"Ok", unwrap(last'.given)>>))]_vars

C26_Witness ==
    /\ last.ended
    /\ last.attempt
    /\ last.requests = 1
    /\ last.prior # None
    /\ ~is_expired(last.prior, last.called_at)
    /\ last.update = "ok"
    /\ last.result[1] = "Ok"
    /\ cache[last.from] = Some(last.result[2])
    /\ db.table

\* C27: when a refresh has succeeded, a get_base_rate call made at once for a
\* currency the table holds needs no refresh: it is served from the table,
\* whatever timestamp the response carried.
C27_FreshAfterSuccessfulRefresh ==
    (last.ended /\ last.update = "ok") =>
        \A c \in CurrencySet :
            cache[c] # None => ~needs_refresh(cache, last_time, c, now)

\* C28: a conversion takes the rate of its source unit and the rate of its
\* target unit from one version of the table: the lookup of the target
\* unit's rate does not refresh, and the table it reads still holds the
\* source unit's rate the conversion took.
C28_BothRatesFromOneTable ==
    [][\A t \in Threads :
          (frame[t].stage = 2 /\ last'.ended /\ last'.by = t /\ last'.result[1] = "Ok")
          => (/\ ~last'.attempt
              /\ cache'[frame[t].from] = Some(frame[t].rate))]_vars

\* C29: every conversion a thread has begun ends, with a value or with the
\* text of an error, after which the thread reads its next input, unless the
\* pricing source is sent no further request; and the mutex, once held, is
\* released.
C29_EveryConversionCompletes ==
    /\ \A t \in Workers :
           (pc[t] \in {"lock", "net"}) ~> (pc[t] = "read" \/ sent = MaxRequests)
    /\ (lock # None) ~> (lock = None)

====
